---- MODULE Spec2Model ----
(***************************************************************************)
(* Model of the concurrent chained hash table of wuyongjia/hashmap         *)
(* (hashmap.go): a bucket array of singly linked chains whose head node    *)
(* caches the chain's tail, one reader/writer lock per table, and Expand,  *)
(* which migrates every entry into a new table.                            *)
(***************************************************************************)
EXTENDS Integers, Sequences, FiniteSets, TLC

(***************************************************************************)
(* Bounds of the model.                                                    *)
(***************************************************************************)
\* number of caller threads of the concurrent specifications
MaxThreads == 2
\* number of tables alive in one behaviour (the first one and Expand's results)
MaxTables == 2
\* number of calls made once a second table exists
MaxAfter == 1
\* largest capacity asked of New for the first table (the smallest is -1)
MaxNewCap == 20

(***************************************************************************)
(* Program constants.                                                      *)
(***************************************************************************)
\* the nil pointer / nil interface value
Nil == 0
\* var defaultCapacity = 1 << 4
defaultCapacity == 16
\* FNV-1 32-bit offset basis 2166136261 = 0x811C9DC5, as two 16-bit limbs
fnvOffsetHi == 33052
fnvOffsetLo == 40389
\* FNV-1 32-bit prime 16777619 = 2^24 + 403: the low part 0x193
fnvPrimeLo == 403
\* width of one limb of the 32-bit hash
LimbBits == 16

Pow2(n) == 2 ^ n
Limb == Pow2(LimbBits)

(***************************************************************************)
(* Bit operations on naturals, bit by bit.                                 *)
(***************************************************************************)
RECURSIVE BitAnd(_, _)
BitAnd(x, y) ==
  IF x = 0 \/ y = 0 THEN 0
  ELSE (IF x % 2 = 1 /\ y % 2 = 1 THEN 1 ELSE 0) + 2 * BitAnd(x \div 2, y \div 2)

RECURSIVE BitXor(_, _)
BitXor(x, y) ==
  IF x = 0 THEN y
  ELSE IF y = 0 THEN x
  ELSE (IF x % 2 = y % 2 THEN 0 ELSE 1) + 2 * BitXor(x \div 2, y \div 2)

(***************************************************************************)
(* hash/fnv New32: FNV-1.  The 32-bit state is kept as <<hi, lo>>, two     *)
(* 16-bit limbs; one round is  h = h * 16777619 (mod 2^32); h = h XOR b.   *)
(***************************************************************************)
fnvRound(h, b) ==
  LET hi == h[1]
      lo == h[2]
      p  == lo * fnvPrimeLo
      lo2 == p % Limb
      hi2 == (hi * fnvPrimeLo + (p \div Limb) + (lo % 256) * 256) % Limb
  IN  <<hi2, BitXor(lo2, b)>>

RECURSIVE fnvWrite(_, _)
fnvWrite(h, bytes) ==
  IF bytes = <<>> THEN h ELSE fnvWrite(fnvRound(h, Head(bytes)), Tail(bytes))

Sum32(bytes) == fnvWrite(<<fnvOffsetHi, fnvOffsetLo>>, bytes)

(***************************************************************************)
(* Keys.  A key is its dynamic type (dom) and its value: the bytes of a    *)
(* []byte or a string, or the number of an int, uint32 or uint64 as a      *)
(* one-element sequence.                                                   *)
(***************************************************************************)
Domains == {"bytes", "string", "int", "uint32", "uint64"}

Key(d, v) == [dom |-> d, val |-> v]
\* the nil interface a scrubbed string key is set to
NilKey == Key("nil", <<>>)

\* math.Ceil(math.Log2(float64(c))) for c >= 1: the least n with 2^n >= c
RECURSIVE CeilLog2(_)
CeilLog2(c) == IF c <= 1 THEN 0 ELSE 1 + CeilLog2((c + 1) \div 2)

(***************************************************************************)
(* State.                                                                  *)
(*   tables : the HM structs ever constructed, by table id 1..Len(tables)  *)
(*   heap   : the live Pairs nodes, by node id 1..Len(heap)                 *)
(*   pc     : where each caller thread is inside its current operation     *)
(*   loc    : the local variables of that operation                        *)
(*   ret    : the call a thread has just finished, with its result, until  *)
(*            the caller takes it                                          *)
(*   hist   : history kept for stating the properties (not program state) *)
(*            keys    the keys the callers use                             *)
(*            results whether finished calls' results stay in ret          *)
(*            ref     per table, the plain map of the calls made on it     *)
(*            puts    the threads that have called Put                     *)
(*            after   the calls made since a second table exists           *)
(*            lin     the reference configurations explaining the calls    *)
(*                    so far (kept when results are not)                   *)
(***************************************************************************)
VARIABLES tables, heap, pc, loc, ret, hist

vars == <<tables, heap, pc, loc, ret, hist>>

\* the caller threads of the behaviour
Threads == DOMAIN pc

\* type HM struct: lock is 0 when free, else the thread holding it exclusively
\* (shared sections are single steps, so no reader is ever seen inside one)
HM(cap) ==
  [ slices      |-> [i \in 1..cap |-> Nil],
    capacity    |-> cap,
    mask_uint32 |-> cap - 1,
    mask_uint64 |-> cap - 1,
    mask_int    |-> cap - 1,
    count       |-> 0,
    lock        |-> 0 ]

\* type Pairs struct
Pairs(k, v, l, n) == [key |-> k, value |-> v, last |-> l, next |-> n]

\* New rounding down: math.Floor in place of math.Ceil
NewRoundsDown(capacity) ==
  IF capacity < defaultCapacity
    THEN HM(defaultCapacity)
    ELSE HM(Pow2(IF Pow2(CeilLog2(capacity)) = capacity
                   THEN CeilLog2(capacity) ELSE CeilLog2(capacity) - 1))

\* New comparing with <= : a request of exactly 16 is rounded as well, and
\* the floor is applied one too far
NewFloorsSixteenAndBelowOnly(capacity) ==
  IF capacity < defaultCapacity
    THEN HM(defaultCapacity)
    ELSE HM(Pow2(CeilLog2(capacity + 1)))

\* func New(capacity int) *HM
New(capacity) ==
  IF capacity < defaultCapacity
    THEN HM(defaultCapacity)
    ELSE HM(Pow2(CeilLog2(capacity)))

(***************************************************************************)
(* Key-domain dispatch.                                                    *)
(***************************************************************************)
\* a 32-bit hash <<hi, lo>> AND a mask
And32(h, mask) == BitAnd(h[1], mask \div Limb) * Limb + BitAnd(h[2], mask % Limb)

\* a two's-complement integer AND a mask below 2^16: only the low 16 bits count
AndInt(x, mask) == BitAnd(x % Limb, mask)

\* the type switch with a default case that returns bucket 0 and no panic
getHashIndexDefaultReturns(hm, key) ==
  CASE key.dom \in {"bytes", "string"} ->
         [hashIndex |-> And32(Sum32(key.val), hm.mask_uint32), equal |-> key.dom, panic |-> FALSE]
    [] key.dom = "int"    ->
         [hashIndex |-> AndInt(key.val[1], hm.mask_int), equal |-> "int", panic |-> FALSE]
    [] key.dom = "uint64" ->
         [hashIndex |-> AndInt(key.val[1], hm.mask_uint64), equal |-> "uint64", panic |-> FALSE]
    [] key.dom = "uint32" ->
         [hashIndex |-> AndInt(key.val[1], hm.mask_uint32), equal |-> "uint32", panic |-> FALSE]
    [] OTHER -> [hashIndex |-> 0, equal |-> key.dom, panic |-> FALSE]

\* func (hm *HM) getHashIndexAndEqualFunc(key): the bucket index, the equality
\* function (named by the type it asserts) and whether it panicked (bad key type)
getHashIndexAndEqualFunc(hm, key) ==
  CASE key.dom = "bytes"  ->
         [hashIndex |-> And32(Sum32(key.val), hm.mask_uint32), equal |-> "bytes", panic |-> FALSE]
    [] key.dom = "string" ->
         [hashIndex |-> And32(Sum32(key.val), hm.mask_uint32), equal |-> "string", panic |-> FALSE]
    [] key.dom = "int"    ->
         [hashIndex |-> AndInt(key.val[1], hm.mask_int), equal |-> "int", panic |-> FALSE]
    [] key.dom = "uint64" ->
         [hashIndex |-> AndInt(key.val[1], hm.mask_uint64), equal |-> "uint64", panic |-> FALSE]
    [] key.dom = "uint32" ->
         [hashIndex |-> AndInt(key.val[1], hm.mask_uint32), equal |-> "uint32", panic |-> FALSE]
    [] OTHER -> [hashIndex |-> 0, equal |-> "none", panic |-> TRUE]

\* bytesEqual, stringEqual, intEqual, uint32Equal, uint64Equal: the type
\* assertion v1.(T) panics when the stored key v1 is not a T
equalPanics(equal, v1) == v1.dom # equal
equalFunc(equal, v1, v2) == v1.dom = equal /\ v1.val = v2.val

(***************************************************************************)
(* Chain search.                                                           *)
(***************************************************************************)
\* the loop of getPairsUnsafe from node pairs on
RECURSIVE findPairs(_, _, _, _)
findPairs(hp, equal, pairs, key) ==
  IF pairs = Nil THEN [pairs |-> Nil, panic |-> FALSE]
  ELSE IF equalPanics(equal, hp[pairs].key) THEN [pairs |-> Nil, panic |-> TRUE]
  ELSE IF equalFunc(equal, hp[pairs].key, key) THEN [pairs |-> pairs, panic |-> FALSE]
  ELSE CHOOSE r \in {findPairs(hp, equal, n, key) : n \in {hp[pairs].next}} : TRUE

\* func (hm *HM) getPairsUnsafe(key) (*Pairs, int)
getPairsUnsafe(hm, hp, key) ==
  LET d == getHashIndexAndEqualFunc(hm, key)
  IN  IF d.panic THEN [pairs |-> Nil, hashIndex |-> 0, panic |-> TRUE]
      ELSE LET f == findPairs(hp, d.equal, hm.slices[d.hashIndex + 1], key)
           IN  [pairs |-> f.pairs, hashIndex |-> d.hashIndex, panic |-> f.panic]

(***************************************************************************)
(* Mutations.  A memory m is [tables, heap]; each operator returns the     *)
(* memory after the statements it models.                                  *)
(***************************************************************************)
Mem(ts, hp) == [tables |-> ts, heap |-> hp]

\* the insert linking the new node behind the head:  pairs.next = newPairs
putInsertLinksBehindHead(m, h, hashIndex, key, value) ==
  LET new   == Len(m.heap) + 1
      pairs == m.tables[h].slices[hashIndex + 1]
      hp0   == Append(m.heap, Pairs(key, value, Nil, Nil))
      hp1   == IF pairs # Nil
                 THEN [hp0 EXCEPT ![pairs].next = new, ![pairs].last = new]
                 ELSE [hp0 EXCEPT ![new].last = new]
      ts1   == IF pairs # Nil
                 THEN m.tables
                 ELSE [m.tables EXCEPT ![h].slices[hashIndex + 1] = new]
  IN  Mem([ts1 EXCEPT ![h].count = @ + 1], hp1)

\* Put, the branch pairs == nil, from hm.lock.Lock() on: append the new node
\* to the chain of bucket hashIndex through the head's last, or make it the head
putInsert(m, h, hashIndex, key, value) ==
  LET new   == Len(m.heap) + 1
      pairs == m.tables[h].slices[hashIndex + 1]
      hp0   == Append(m.heap, Pairs(key, value, Nil, Nil))
      hp1   == IF pairs # Nil
                 THEN LET a == [hp0 EXCEPT ![hp0[pairs].last].next = new]
                      IN  [a EXCEPT ![pairs].last = new]
                 ELSE [hp0 EXCEPT ![new].last = new]
      ts1   == IF pairs # Nil
                 THEN m.tables
                 ELSE [m.tables EXCEPT ![h].slices[hashIndex + 1] = new]
  IN  Mem([ts1 EXCEPT ![h].count = @ + 1], hp1)

\* Put, the branch pairs != nil: pairs.value = value
putSetValue(m, pairs, value) ==
  Mem(m.tables, [m.heap EXCEPT ![pairs].value = value])

\* func (hm *HM) setPairsEmpty(pairs *Pairs)
setPairsEmpty(hp, pairs) ==
  LET k    == hp[pairs].key
      key2 == CASE k.dom = "bytes"  -> Key("bytes", <<>>)
                [] k.dom = "string" -> NilKey
                [] OTHER            -> k
  IN  [hp EXCEPT ![pairs] = Pairs(key2, Nil, Nil, Nil)]

\* the loop of removePairs up to the node that compares equal: that node, the
\* one before it, or a panic of the equality function on the way
RECURSIVE removeWalk(_, _, _, _, _)
removeWalk(hp, equal, prevPairs, pairs, key) ==
  IF pairs = Nil THEN [prevPairs |-> prevPairs, pairs |-> Nil, panic |-> FALSE]
  ELSE IF equalPanics(equal, hp[pairs].key)
         THEN [prevPairs |-> prevPairs, pairs |-> Nil, panic |-> TRUE]
  ELSE IF equalFunc(equal, hp[pairs].key, key)
         THEN [prevPairs |-> prevPairs, pairs |-> pairs, panic |-> FALSE]
  ELSE CHOOSE r \in {removeWalk(hp, equal, pairs, n, key) : n \in {hp[pairs].next}} : TRUE

\* unlinkPairs with the tail-anchor left alone when the tail is removed
unlinkPairsKeepsAnchor(m, h, hashIndex, firstPairs, prevPairs, pairs) ==
  LET hp  == m.heap
      nxt == hp[pairs].next
      hp1 == IF prevPairs # Nil
               THEN [hp EXCEPT ![prevPairs].next = nxt]
               ELSE IF nxt # Nil THEN [hp EXCEPT ![nxt].last = hp[pairs].last] ELSE hp
      ts1 == IF prevPairs # Nil
               THEN m.tables
               ELSE [m.tables EXCEPT ![h].slices[hashIndex + 1] = nxt]
  IN  Mem([ts1 EXCEPT ![h].count = @ - 1], setPairsEmpty(hp1, pairs))

\* unlinkPairs with the tail-anchor not carried over to the new head when
\* the head is removed
unlinkPairsDropsHeadAnchor(m, h, hashIndex, firstPairs, prevPairs, pairs) ==
  LET hp  == m.heap
      nxt == hp[pairs].next
      hp1 == IF prevPairs # Nil
               THEN LET a == [hp EXCEPT ![prevPairs].next = nxt]
                    IN  IF nxt = Nil THEN [a EXCEPT ![firstPairs].last = prevPairs] ELSE a
               ELSE hp
      ts1 == IF prevPairs # Nil
               THEN m.tables
               ELSE [m.tables EXCEPT ![h].slices[hashIndex + 1] = nxt]
  IN  Mem([ts1 EXCEPT ![h].count = @ - 1], setPairsEmpty(hp1, pairs))

\* removePairs, the body of   if equal(pairs.key, key) { ... }
unlinkPairs(m, h, hashIndex, firstPairs, prevPairs, pairs) ==
  LET hp  == m.heap
      nxt == hp[pairs].next
      hp1 == IF prevPairs # Nil
               THEN LET a == [hp EXCEPT ![prevPairs].next = nxt]
                    IN  IF nxt = Nil THEN [a EXCEPT ![firstPairs].last = prevPairs] ELSE a
               ELSE IF nxt # Nil THEN [hp EXCEPT ![nxt].last = hp[pairs].last] ELSE hp
      ts1 == IF prevPairs # Nil
               THEN m.tables
               ELSE [m.tables EXCEPT ![h].slices[hashIndex + 1] = nxt]
  IN  Mem([ts1 EXCEPT ![h].count = @ - 1], setPairsEmpty(hp1, pairs))

\* func (hm *HM) removePairs(key, updateFunc): the memory afterwards, the node
\* removed (Nil when the key was not found), the value handed to updateFunc,
\* and whether the call panicked
removePairs(m, h, key) ==
  LET hm == m.tables[h]
      d  == getHashIndexAndEqualFunc(hm, key)
  IN  IF d.panic THEN [mem |-> m, removed |-> Nil, value |-> Nil, panic |-> TRUE]
      ELSE
        LET firstPairs == hm.slices[d.hashIndex + 1]
            w == removeWalk(m.heap, d.equal, Nil, firstPairs, key)
        IN  IF w.panic THEN [mem |-> m, removed |-> Nil, value |-> Nil, panic |-> TRUE]
            ELSE IF w.pairs = Nil
              THEN [mem |-> m, removed |-> Nil, value |-> Nil, panic |-> FALSE]
            ELSE [mem     |-> unlinkPairs(m, h, d.hashIndex, firstPairs, w.prevPairs, w.pairs),
                  removed |-> w.pairs,
                  value   |-> m.heap[w.pairs].value,
                  panic   |-> FALSE]

\* func (hm *HM) Put(key, value) run with no other thread on the table: the
\* lookup under the shared lock, then the insert or overwrite under the
\* exclusive lock
PutAlone(m, h, key, value) ==
  LET g == getPairsUnsafe(m.tables[h], m.heap, key)
  IN  IF g.panic THEN [mem |-> m, panic |-> TRUE]
      ELSE IF g.pairs = Nil
        THEN [mem |-> putInsert(m, h, g.hashIndex, key, value), panic |-> FALSE]
        ELSE [mem |-> putSetValue(m, g.pairs, value), panic |-> FALSE]

(***************************************************************************)
(* Traversal order: bucket order, then chain order.  (The argument of a    *)
(* recursive call is bound through a one-element set, which makes TLC      *)
(* compute it once.)                                                       *)
(***************************************************************************)
\* the chain from node pairs on, following next
RECURSIVE chainFrom(_, _)
chainFrom(hp, pairs) ==
  IF pairs = Nil THEN <<>>
  ELSE CHOOSE r \in {<<pairs>> \o chainFrom(hp, n) : n \in {hp[pairs].next}} : TRUE

\* for _, pairs = range hm.slices, from bucket i on: the first bucket >= i
\* that is not empty, or capacity when there is none
RECURSIVE nextBucket(_, _)
nextBucket(hm, i) ==
  IF i >= Len(hm.slices) THEN Len(hm.slices)
  ELSE IF hm.slices[i + 1] # Nil THEN i
  ELSE CHOOSE r \in {nextBucket(hm, j) : j \in {i + 1}} : TRUE

\* every node reachable from the bucket array, in Iterate's order
RECURSIVE nodesFrom(_, _, _)
nodesFrom(hm, hp, i) ==
  CHOOSE r \in {IF b >= Len(hm.slices) THEN <<>>
                  ELSE chainFrom(hp, hm.slices[b + 1]) \o nodesFrom(hm, hp, b + 1) :
                  b \in {nextBucket(hm, i)}} : TRUE

\* bucket i's head, Nil past the last bucket
headOf(hm, i) == IF i >= Len(hm.slices) THEN Nil ELSE hm.slices[i + 1]

\* the chain's end written as  firstPairs.last = firstPairs
anchorTailAtHead(m, firstPairs, pairs) ==
  Mem(m.tables, [m.heap EXCEPT ![firstPairs].last = firstPairs])

\* func (hm *HM) Expand, at the chain's end:  firstPairs.last = pairs
anchorTail(m, firstPairs, pairs) ==
  Mem(m.tables, [m.heap EXCEPT ![firstPairs].last = pairs])

\* func (hm *HM) Expand, the loops from node pairs of bucket i (head
\* firstPairs) on: re-insert the pair into table new through Put; then on to
\* pairs.next, or, at the chain's end, firstPairs.last = pairs and on to the
\* next non-empty bucket
\* (p and a are bound through one-element sets so that each is computed once)
RECURSIVE migrateFrom(_, _, _, _, _, _)
migrateFrom(m, h, new, i, firstPairs, pairs) ==
  IF pairs = Nil THEN [mem |-> m, panic |-> FALSE]
  ELSE
    CHOOSE r \in
      { IF p.panic THEN [mem |-> p.mem, panic |-> TRUE]
        ELSE IF p.mem.heap[pairs].next # Nil
          THEN migrateFrom(p.mem, h, new, i, firstPairs, p.mem.heap[pairs].next)
          ELSE CHOOSE q \in
                 { LET b == nextBucket(a.tables[h], i + 1)
                   IN  migrateFrom(a, h, new, b, headOf(a.tables[h], b), headOf(a.tables[h], b)) :
                   a \in {anchorTail(p.mem, firstPairs, pairs)} } : TRUE :
        p \in {PutAlone(m, new, m.heap[pairs].key, m.heap[pairs].value)} } : TRUE

(***************************************************************************)
(* What the read operations return, in memory (ts, hp) and in the current  *)
(* state.                                                                  *)
(***************************************************************************)
\* func (hm *HM) Get(key): the value, or Nil
GetIn(ts, hp, h, key) ==
  LET g == getPairsUnsafe(ts[h], hp, key)
  IN  IF g.pairs # Nil THEN hp[g.pairs].value ELSE Nil

\* func (hm *HM) Exists(key) bool
ExistsIn(ts, hp, h, key) == getPairsUnsafe(ts[h], hp, key).pairs # Nil

\* func (hm *HM) GetCount() int
GetCountIn(ts, h) == ts[h].count

\* func (hm *HM) Iterate(readFunc): the (key, value) pairs handed to readFunc
IterateIn(ts, hp, h) ==
  LET ns == nodesFrom(ts[h], hp, 0)
  IN  [j \in 1..Len(ns) |-> <<hp[ns[j]].key, hp[ns[j]].value>>]

GetOp(h, key) == GetIn(tables, heap, h, key)
ExistsOp(h, key) == ExistsIn(tables, heap, h, key)
GetCountOp(h) == GetCountIn(tables, h)
IterateOp(h) == IterateIn(tables, heap, h)


\* func (hm *HM) IterateAndUpdate, the traversal from node pairs of bucket i
\* on.  The callback says true exactly for the (key, value) pairs in keep.
\* Each pass:
\* nextPairs = pairs.next; the callback; removePairs(pairs.key, nil) when it
\* said false; then on to nextPairs, or to the next non-empty bucket.
\* (r and vs are bound through a one-element set so that each is computed once)
RECURSIVE iterateAndUpdateFrom(_, _, _, _, _, _)
iterateAndUpdateFrom(m, h, i, pairs, keep, visits) ==
  IF pairs = Nil THEN [mem |-> m, visits |-> visits, panic |-> FALSE]
  ELSE
    LET nextPairs == m.heap[pairs].next
        key   == m.heap[pairs].key
        valid == <<key, m.heap[pairs].value>> \in keep
    IN  CHOOSE q \in
          { LET r  == x[1]
                vs == x[2]
            IN  IF r.panic THEN [mem |-> r.mem, visits |-> vs, panic |-> TRUE]
                ELSE IF x[3] # Nil
                  THEN iterateAndUpdateFrom(r.mem, h, i, x[3], keep, vs)
                  ELSE LET b == nextBucket(r.mem.tables[h], i + 1)
                       IN  iterateAndUpdateFrom(r.mem, h, b, headOf(r.mem.tables[h], b), keep, vs) :
            x \in {<< IF valid THEN [mem |-> m, panic |-> FALSE] ELSE removePairs(m, h, key),
                      Append(visits, [key |-> key, value |-> m.heap[pairs].value, valid |-> valid]),
                      nextPairs >>} } : TRUE

(***************************************************************************)
(* Memory management.  The program never compares or prints an address,    *)
(* and the runtime reclaims a node once nothing refers to it.  After every *)
(* step the live nodes are therefore renumbered in a fixed order: table by *)
(* table in traversal order, then the nodes only a thread's locals or a    *)
(* node's fields still refer to.  Unreferenced nodes are dropped.  Where an *)
(* intermediate result is used more than once it is bound through a        *)
(* one-element set, which makes TLC compute it once.                       *)
(***************************************************************************)
Range(f) == {f[x] : x \in DOMAIN f}

\* seq's elements appended to acc, without Nil and without repetition
RECURSIVE uniq(_, _)
uniq(seq, acc) ==
  IF seq = <<>> THEN acc
  ELSE CHOOSE r \in {uniq(Tail(x[1]), IF Head(x[1]) = Nil \/ Head(x[1]) \in Range(x[2])
                                        THEN x[2] ELSE Append(x[2], Head(x[1]))) :
                      x \in {<<seq, acc>>}} : TRUE

RECURSIVE tableNodes(_, _, _)
tableNodes(ts, hp, h) ==
  IF h > Len(ts) THEN <<>> ELSE nodesFrom(ts[h], hp, 0) \o tableNodes(ts, hp, h + 1)

RECURSIVE localNodes(_, _)
localNodes(lc, t) ==
  IF t > Len(lc) THEN <<>>
  ELSE <<lc[t].pairs, lc[t].cur, lc[t].first>> \o localNodes(lc, t + 1)

RECURSIVE fieldNodes(_, _)
fieldNodes(hp, ns) ==
  IF ns = <<>> THEN <<>>
  ELSE <<hp[Head(ns)].next, hp[Head(ns)].last>> \o fieldNodes(hp, Tail(ns))

RECURSIVE closeNodes(_, _)
closeNodes(hp, ns) ==
  CHOOSE r \in {IF x[1] = x[2] THEN x[2] ELSE closeNodes(hp, x[1]) :
                  x \in {<<uniq(fieldNodes(hp, ns), ns), ns>>}} : TRUE

liveNodes(ts, hp, lc) ==
  closeNodes(hp, uniq(tableNodes(ts, hp, 1) \o localNodes(lc, 1), <<>>))

\* the memory and the locals with node ns[j] renamed j
renumberWith(ts, hp, lc, ns) ==
  LET at(n) == IF n = Nil THEN Nil ELSE CHOOSE j \in 1..Len(ns) : ns[j] = n
  IN  [ tables |-> [h \in 1..Len(ts) |->
                      [ts[h] EXCEPT !.slices = [b \in 1..Len(ts[h].slices) |-> at(ts[h].slices[b])]]],
        heap   |-> [j \in 1..Len(ns) |->
                      [hp[ns[j]] EXCEPT !.next = at(hp[ns[j]].next), !.last = at(hp[ns[j]].last)]],
        loc    |-> [t \in 1..Len(lc) |->
                      [lc[t] EXCEPT !.pairs = at(lc[t].pairs), !.cur = at(lc[t].cur),
                                    !.first = at(lc[t].first)]] ]

renumber(ts, hp, lc) ==
  CHOOSE c \in {renumberWith(ts, hp, lc, ns) : ns \in {liveNodes(ts, hp, lc)}} : TRUE

\* the step leaves memory m and locals lc
Commit(m, lc) ==
  \E c \in {renumber(x[1].tables, x[1].heap, x[2]) : x \in {<<m, lc>>}} :
    /\ tables' = c.tables
    /\ heap' = c.heap
    /\ loc' = c.loc

(***************************************************************************)
(* Inputs the callers draw from.                                           *)
(***************************************************************************)
\* number of distinct keys per key domain, and of distinct values
MaxKeys == 3
\* keys the concurrent callers share
MaxSharedKeys == 2
\* README: var capacity = 5, the table's capacity and the number of goroutines
readmeCapacity == 5
MaxValue == 2

\* With capacity 16 the first three keys of every domain share one bucket;
\* with capacity 32 they split over two buckets.  The byte keys are "a", "q",
\* "A", "key1" and "key2": FNV-1 puts "a", "q" and "A" in bucket 14 of 16.
KeyVals(d) ==
  CASE d = "bytes"  -> << <<97>>, <<113>>, <<65>>, <<107, 101, 121, 49>>, <<107, 101, 121, 50>> >>
    [] d = "string" -> << <<97>>, <<113>>, <<65>>, <<107, 101, 121, 49>>, <<107, 101, 121, 50>> >>
    [] d = "int"    -> << <<1>>, <<17>>, <<-15>>, <<2>>, <<3>> >>
    [] d = "uint32" -> << <<1>>, <<17>>, <<33>>, <<2>>, <<3>> >>
    [] d = "uint64" -> << <<1>>, <<17>>, <<33>>, <<2>>, <<3>> >>

\* the keys of domain d the callers use, and one they never insert
KeySeq(d) == [j \in 1..MaxKeys |-> Key(d, KeyVals(d)[j])]
SpareKey(d) == Key(d, KeyVals(d)[MaxKeys + 1])
Values == 1..MaxValue

\* capacities asked of New for the first table, and of Expand
NewCaps == -1..MaxNewCap
ExpandCaps == {2, 17}

NoLoc == [h |-> 0, key |-> NilKey, value |-> Nil, pairs |-> Nil, hashIndex |-> 0,
          i |-> 0, cur |-> Nil, n |-> 0, first |-> Nil, op |-> ""]

\* a finished call: the operation, its arguments, the error it panicked with
\* ("" when it returned normally) and what it returned
Ret(op, arg, panic, val) == [op |-> op, arg |-> arg, panic |-> panic, val |-> val]
NoRet == Ret("none", Nil, "", Nil)
BadKeyType == "bad key type"
\* the run-time panic of a type assertion  v1.(T)  on a value that is no T
InterfaceConversion == "interface conversion"
CapacityTooSmall == "the capacity is less than the number of items in the list"

\* the panic a call with key on table hm ends in when it panics: the key has
\* no supported type, or an equality function met a stored key of another type
panicOf(hm, key) ==
  IF getHashIndexAndEqualFunc(hm, key).panic THEN BadKeyType ELSE InterfaceConversion

\* the state before the first table is made, with n caller threads using
\* the keys ks; lin0 is the set of reference configurations the history is
\* compared with.  With none (lin0 empty) a finished call's result stays in
\* ret until the caller takes it; otherwise the result is compared with the
\* reference as the call ends and not kept
InitWith(n, ks, lin0) ==
  /\ tables = <<>>
  /\ heap = <<>>
  /\ pc = [t \in 1..n |-> "idle"]
  /\ loc = [t \in 1..n |-> NoLoc]
  /\ ret = [t \in 1..n |-> NoRet]
  /\ hist = [keys |-> ks, ref |-> <<>>, after |-> 0, puts |-> {}, lin |-> lin0,
             results |-> lin0 = {}]

Keys == Range(hist.keys)
EmptyRef == [k \in Keys |-> Nil]
TableIds == 1..Len(tables)

(***************************************************************************)
(* The sequential reference the concurrent history is compared with.  A    *)
(* configuration is the contents of a plain map and, for each thread, if   *)
(* the Put it has in flight has already taken effect.  hist.lin holds      *)
(* every configuration some order of the calls so far explains: a call     *)
(* takes effect at one point between its start and its return, and what it *)
(* returns is what the plain map returns at that point.                    *)
(***************************************************************************)
Config(map, done) == [map |-> map, done |-> done]

\* the Put calls between their lookup and their write
PendingPuts ==
  {[t |-> t, key |-> loc[t].key, value |-> loc[t].value] : t \in {u \in Threads : pc[u] = "put"}}

linearizeOne(cs, pend) ==
  cs \cup {Config([x[1].map EXCEPT ![x[2].key] = x[2].value],
                  [x[1].done EXCEPT ![x[2].t] = TRUE]) :
             x \in {y \in cs \X pend : ~y[1].done[y[2].t]}}

\* cs with every pending Put taking effect or not, in every order
RECURSIVE linClose(_, _)
linClose(cs, pend) ==
  LET n == linearizeOne(cs, pend)
  IN  IF n = cs THEN cs ELSE linClose(n, pend)

\* the number of keys a plain map holds
mapCount(map) == Cardinality({k \in DOMAIN map : map[k] # Nil})

\* the plain map's value for key k
mapGet(map, k) == IF k \in DOMAIN map THEN map[k] ELSE Nil

\* the pairs it (in iteration order) are exactly the map's entries, each once
mapIterated(map, it) ==
  /\ Len(it) = mapCount(map)
  /\ \A k \in DOMAIN map :
       map[k] # Nil => \E j \in 1..Len(it) : it[j] = <<k, map[k]>>

\* thread t may begin a call
CanCall(t) ==
  /\ pc[t] = "idle"
  /\ Len(tables) < 2 \/ hist.after < MaxAfter

\* thread t's call is over with result r
Done(t, r) ==
  /\ pc' = [pc EXCEPT ![t] = IF hist.results THEN "returned" ELSE "idle"]
  /\ ret' = [ret EXCEPT ![t] = IF hist.results THEN r ELSE NoRet]

\* one more call made: counted once a second table exists
Called(hs) == IF Len(tables) < 2 THEN hs ELSE [hs EXCEPT !.after = @ + 1]

\* the caller takes the result of its finished call
Return(t) ==
  /\ pc[t] = "returned"
  /\ pc' = [pc EXCEPT ![t] = "idle"]
  /\ ret' = [ret EXCEPT ![t] = NoRet]
  /\ UNCHANGED <<tables, heap, loc, hist>>

\* hm := New(c), the first table
NewTable(t, c) ==
  /\ pc[t] = "idle"
  /\ Len(tables) = 0
  /\ tables' = <<New(c)>>
  /\ hist' = [hist EXCEPT !.ref = IF hist.results THEN <<EmptyRef>> ELSE @]
  /\ Done(t, Ret("New", [c |-> c], "", 1))
  /\ UNCHANGED <<heap, loc>>

(***************************************************************************)
(* Put as two steps: the lookup under the shared lock (getPairs), then, as *)
(* a separate critical section, the insert or the overwrite under the      *)
(* exclusive lock.                                                         *)
(***************************************************************************)
PutStart(t, h, key, value) ==
  /\ CanCall(t)
  /\ tables[h].lock = 0
  /\ LET g == getPairsUnsafe(tables[h], heap, key)
     IN  IF g.panic
           THEN /\ Done(t, Ret("Put", [h |-> h, key |-> key, value |-> value],
                               panicOf(tables[h], key), Nil))
                /\ hist' = Called(hist)
                /\ UNCHANGED loc
           ELSE /\ pc' = [pc EXCEPT ![t] = "put"]
                /\ loc' = [loc EXCEPT ![t] = [NoLoc EXCEPT !.h = h, !.key = key,
                              !.value = value, !.pairs = g.pairs, !.hashIndex = g.hashIndex]]
                /\ hist' = [Called(hist) EXCEPT
                              !.puts = IF hist.results THEN @ \cup {t} ELSE @,
                              !.lin = linClose(@, PendingPuts \cup
                                        {[t |-> t, key |-> key, value |-> value]})]
                /\ UNCHANGED ret
  /\ UNCHANGED <<tables, heap>>

PutFinish(t) ==
  /\ pc[t] = "put"
  /\ tables[loc[t].h].lock = 0
  /\ LET l == loc[t]
         m == IF l.pairs = Nil
                THEN putInsert(Mem(tables, heap), l.h, l.hashIndex, l.key, l.value)
                ELSE putSetValue(Mem(tables, heap), l.pairs, l.value)
     IN  /\ Commit(m, [loc EXCEPT ![t] = NoLoc])
         /\ hist' = [hist EXCEPT
                       !.ref = IF hist.results THEN [@ EXCEPT ![l.h][l.key] = l.value] ELSE @,
                       !.lin = {Config(c.map, [c.done EXCEPT ![t] = FALSE]) :
                                  c \in {d \in @ : d.done[t]}}]
         /\ Done(t, Ret("Put", [h |-> l.h, key |-> l.key, value |-> l.value], "", Nil))

(***************************************************************************)
(* Put as one step: a call no other operation overlaps.                    *)
(***************************************************************************)
Put(t, h, key, value) ==
  /\ CanCall(t)
  /\ tables[h].lock = 0
  /\ LET r == PutAlone(Mem(tables, heap), h, key, value)
     IN  /\ Commit(r.mem, loc)
         /\ Done(t, Ret("Put", [h |-> h, key |-> key, value |-> value],
                        IF r.panic THEN panicOf(tables[h], key) ELSE "", Nil))
         /\ hist' = IF r.panic THEN Called(hist)
                    ELSE [Called(hist) EXCEPT !.ref[h][key] = value]

(***************************************************************************)
(* Remove, under the exclusive lock.                                       *)
(***************************************************************************)
Remove(t, h, key) ==
  /\ CanCall(t)
  /\ tables[h].lock = 0
  /\ LET r == removePairs(Mem(tables, heap), h, key)
     IN  /\ Commit(r.mem, loc)
         /\ Done(t, Ret("Remove", [h |-> h, key |-> key],
                        IF r.panic THEN panicOf(tables[h], key) ELSE "", r.removed # Nil))
         /\ hist' = IF r.panic THEN Called(hist)
                    ELSE [Called(hist) EXCEPT
                            !.ref = IF hist.results THEN [@ EXCEPT ![h][key] = Nil] ELSE @,
                            !.lin = linClose({Config([c.map EXCEPT ![key] = Nil], c.done) :
                                                c \in @}, PendingPuts)]

(***************************************************************************)
(* RemoveAndUpdate, under the exclusive lock.  The result is the sequence  *)
(* of values updateFunc was called with: the removed entry's value, or no  *)
(* call at all when the key was not found.                                 *)
(***************************************************************************)
RemoveAndUpdate(t, h, key) ==
  /\ CanCall(t)
  /\ tables[h].lock = 0
  /\ LET r == removePairs(Mem(tables, heap), h, key)
     IN  /\ Commit(r.mem, loc)
         /\ Done(t, Ret("RemoveAndUpdate", [h |-> h, key |-> key],
                        IF r.panic THEN panicOf(tables[h], key) ELSE "",
                        IF r.removed # Nil THEN <<r.value>> ELSE <<>>))
         /\ hist' = IF r.panic THEN Called(hist)
                    ELSE [Called(hist) EXCEPT
                            !.ref = IF hist.results THEN [@ EXCEPT ![h][key] = Nil] ELSE @,
                            !.lin = linClose({Config([c.map EXCEPT ![key] = Nil], c.done) :
                                                c \in @}, PendingPuts)]

(***************************************************************************)
(* UpdateWithFunc, under the exclusive lock.  The result is the sequence   *)
(* of values updateFunc was called with: the stored value, or nil when the *)
(* key is not there.  The table itself is only read.                       *)
(***************************************************************************)
UpdateWithFunc(t, h, key) ==
  /\ CanCall(t)
  /\ tables[h].lock = 0
  /\ LET g == getPairsUnsafe(tables[h], heap, key)
     IN  /\ Done(t, Ret("UpdateWithFunc", [h |-> h, key |-> key],
                        IF g.panic THEN panicOf(tables[h], key) ELSE "",
                        IF g.panic THEN <<>>
                        ELSE IF g.pairs # Nil THEN <<heap[g.pairs].value>> ELSE <<Nil>>))
         /\ hist' = IF g.panic THEN Called(hist)
                    ELSE [Called(hist) EXCEPT
                            !.lin = linClose({c \in @ : mapGet(c.map, key) = GetOp(h, key)},
                                             PendingPuts)]
  /\ UNCHANGED <<tables, heap, loc>>

(***************************************************************************)
(* IterateAndUpdate as one step: a call no other operation overlaps.  The  *)
(* callback says true exactly for the (key, value) pairs in keep.          *)
(***************************************************************************)
IterateAndUpdate(t, h, keep) ==
  /\ CanCall(t)
  /\ tables[h].lock = 0
  /\ LET b == nextBucket(tables[h], 0)
         r == iterateAndUpdateFrom(Mem(tables, heap), h, b, headOf(tables[h], b), keep, <<>>)
     IN  /\ Commit(r.mem, loc)
         /\ Done(t, Ret("IterateAndUpdate", [h |-> h, keep |-> keep],
                        IF r.panic THEN InterfaceConversion ELSE "", r.visits))
         /\ hist' = IF r.panic THEN Called(hist)
                    ELSE [Called(hist) EXCEPT
                            !.ref[h] = [k \in Keys |->
                                          IF <<k, @[k]>> \in keep THEN @[k] ELSE Nil]]

\* the check written  capacity < hm.count
capacityTooSmallStrict(hm, n) == n < hm.count

\* Expand's check  if capacity <= hm.count { panic(...) }
capacityTooSmall(hm, n) == n <= hm.count

(***************************************************************************)
(* Expand as one step: a call no other operation overlaps.  The capacity   *)
(* check, New, then the migration under the source's exclusive lock.       *)
(***************************************************************************)
Expand(t, h, n) ==
  /\ CanCall(t)
  /\ Len(tables) < MaxTables
  /\ tables[h].lock = 0
  /\ IF capacityTooSmall(tables[h], n)
       THEN /\ Done(t, Ret("Expand", [h |-> h, n |-> n], CapacityTooSmall, Nil))
            /\ hist' = Called(hist)
            /\ UNCHANGED <<tables, heap, loc>>
       ELSE LET new == Len(tables) + 1
                b   == nextBucket(tables[h], 0)
                r   == migrateFrom(Mem(Append(tables, New(n)), heap), h, new, b,
                                   headOf(tables[h], b), headOf(tables[h], b))
            IN  IF r.panic
                  THEN /\ Commit(Mem(SubSeq(r.mem.tables, 1, Len(tables)), r.mem.heap), loc)
                       /\ Done(t, Ret("Expand", [h |-> h, n |-> n], InterfaceConversion, Nil))
                       /\ hist' = Called(hist)
                  ELSE /\ Commit(r.mem, loc)
                       /\ Done(t, Ret("Expand", [h |-> h, n |-> n], "", new))
                       /\ hist' = [Called(hist) EXCEPT !.ref = Append(@, @[h])]

(***************************************************************************)
(* The read operations, each one step under the shared lock.               *)
(***************************************************************************)
Get(t, h, key) ==
  /\ CanCall(t)
  /\ tables[h].lock = 0
  /\ LET g == getPairsUnsafe(tables[h], heap, key)
         v == GetOp(h, key)
     IN  /\ Done(t, Ret("Get", [h |-> h, key |-> key],
                        IF g.panic THEN panicOf(tables[h], key) ELSE "", v))
         /\ hist' = IF g.panic THEN Called(hist)
                    ELSE [Called(hist) EXCEPT
                            !.lin = linClose({c \in @ : mapGet(c.map, key) = v}, PendingPuts)]
  /\ UNCHANGED <<tables, heap, loc>>

Exists(t, h, key) ==
  /\ CanCall(t)
  /\ tables[h].lock = 0
  /\ LET g == getPairsUnsafe(tables[h], heap, key)
         v == ExistsOp(h, key)
     IN  /\ Done(t, Ret("Exists", [h |-> h, key |-> key],
                        IF g.panic THEN panicOf(tables[h], key) ELSE "", v))
         /\ hist' = IF g.panic THEN Called(hist)
                    ELSE [Called(hist) EXCEPT
                            !.lin = linClose({c \in @ : (mapGet(c.map, key) # Nil) = v},
                                             PendingPuts)]
  /\ UNCHANGED <<tables, heap, loc>>

GetCount(t, h) ==
  /\ CanCall(t)
  /\ tables[h].lock = 0
  /\ LET v == GetCountOp(h)
     IN  /\ Done(t, Ret("GetCount", [h |-> h], "", v))
         /\ hist' = [Called(hist) EXCEPT
                       !.lin = linClose({c \in @ : mapCount(c.map) = v}, PendingPuts)]
  /\ UNCHANGED <<tables, heap, loc>>

Iterate(t, h) ==
  /\ CanCall(t)
  /\ tables[h].lock = 0
  /\ LET v == IterateOp(h)
     IN  /\ Done(t, Ret("Iterate", [h |-> h], "", v))
         /\ hist' = [Called(hist) EXCEPT
                       !.lin = linClose({c \in @ : mapIterated(c.map, v)}, PendingPuts)]
  /\ UNCHANGED <<tables, heap, loc>>

(***************************************************************************)
(* Sequential use: one caller, so no two operations overlap.               *)
(***************************************************************************)
InitSeq == \E d \in Domains : InitWith(1, KeySeq(d), {})

NextSeq ==
  \/ \E c \in NewCaps : NewTable(1, c)
  \/ \E h \in TableIds, k \in Keys, v \in Values : Put(1, h, k, v)
  \/ \E h \in TableIds, k \in Keys : Remove(1, h, k)
  \/ \E h \in TableIds : \E keep \in SUBSET Range(IterateOp(h)) : IterateAndUpdate(1, h, keep)
  \/ \E h \in TableIds, n \in ExpandCaps : Expand(1, h, n)
  \/ Return(1)

SpecSeq == InitSeq /\ [][NextSeq]_vars

(***************************************************************************)
(* Concurrent use of one table: every thread calls what it likes, and the  *)
(* two critical sections of a Put interleave with the other threads.       *)
(***************************************************************************)
\* the keys the threads contend for: the first MaxSharedKeys of a domain,
\* which share a bucket of a table of the default capacity
SharedKeys(d) == SubSeq(KeySeq(d), 1, MaxSharedKeys)

\* the reference before any call: an empty map, no Put in flight
EmptyConfig(n, ks) == Config([k \in Range(ks) |-> Nil], [t \in 1..n |-> FALSE])

Init ==
  InitWith(MaxThreads, SharedKeys("int"), {EmptyConfig(MaxThreads, SharedKeys("int"))})

\* each thread writes its own number, so a value names its writer
Next ==
  \/ NewTable(1, defaultCapacity)
  \/ \E t \in Threads, h \in TableIds, k \in Keys : PutStart(t, h, k, t)
  \/ \E t \in Threads : PutFinish(t)
  \/ \E t \in Threads, h \in TableIds, k \in Keys : Remove(t, h, k)
  \/ \E t \in Threads, h \in TableIds, k \in Keys : Get(t, h, k)
  \/ \E t \in Threads, h \in TableIds, k \in Keys : Exists(t, h, k)
  \/ \E t \in Threads, h \in TableIds : GetCount(t, h)
  \/ \E t \in Threads, h \in TableIds : Iterate(t, h)

Spec == Init /\ [][Next]_vars

(***************************************************************************)
(* Concurrent Puts of distinct keys on a fresh table, one per thread, the  *)
(* thread's number as the value; once all have returned, thread 1 removes  *)
(* keys and reads the table.  Either the README's second example (New(5),  *)
(* five goroutines putting "key1" .. "key5") or MaxKeys threads with keys  *)
(* of which the first three share a bucket.                                *)
(***************************************************************************)
ReadmeKeys == [i \in 1..readmeCapacity |-> Key("bytes", <<107, 101, 121, 48 + i>>)]

InitDistinct ==
  \/ InitWith(readmeCapacity, ReadmeKeys, {})
  \/ \E d \in {"bytes", "int"} : InitWith(MaxKeys, KeySeq(d), {})

\* every thread has made its Put and none is still inside it
AllPutsReturned == hist.puts = Threads /\ \A t \in Threads : pc[t] # "put"

NextDistinct ==
  \/ NewTable(1, readmeCapacity)
  \/ \E t \in Threads : t \notin hist.puts /\ Len(tables) = 1 /\ PutStart(t, 1, hist.keys[t], t)
  \/ \E t \in Threads : PutFinish(t)
  \/ \E k \in Keys : AllPutsReturned /\ Remove(1, 1, k)
  \/ AllPutsReturned /\ Iterate(1, 1)
  \/ AllPutsReturned /\ GetCount(1, 1)
  \/ \E t \in Threads : Return(t)

SpecDistinct == InitDistinct /\ [][NextDistinct]_vars

(***************************************************************************)
(* Overlapping Puts on shared keys, then calls that nothing overlaps: once *)
(* no Put is in flight, thread 1 removes, expands or filters the table.    *)
(***************************************************************************)
InitRaced == InitWith(MaxThreads, SharedKeys("int"), {})

\* no call is in flight
Quiet == \A t \in Threads : pc[t] # "put"

NextRaced ==
  \/ NewTable(1, defaultCapacity)
  \/ \E t \in Threads, k \in Keys : Len(tables) = 1 /\ PutStart(t, 1, k, t)
  \/ \E t \in Threads : PutFinish(t)
  \/ \E h \in TableIds, k \in Keys : Quiet /\ Remove(1, h, k)
  \/ \E h \in TableIds : \E keep \in SUBSET Range(IterateOp(h)) :
       Quiet /\ IterateAndUpdate(1, h, keep)
  \/ \E h \in TableIds, n \in ExpandCaps : Quiet /\ Expand(1, h, n)
  \/ \E t \in Threads : Return(t)

SpecRaced == InitRaced /\ [][NextRaced]_vars

(***************************************************************************)
(* One caller, one table holding keys of several domains: two ints and a   *)
(* uint32 that share a bucket of a table of the default capacity, and a    *)
(* string in a bucket of its own.  The caller also passes keys no table    *)
(* supports: a float64 and the nil interface.                              *)
(***************************************************************************)
MixedKeys ==
  <<Key("int", KeyVals("int")[1]), Key("uint32", KeyVals("uint32")[1]),
    Key("int", KeyVals("int")[2]), Key("string", KeyVals("string")[1])>>

UnsupportedKeys == {Key("float64", KeyVals("int")[1]), NilKey}

\* every key a caller passes
CallKeys == Keys \cup UnsupportedKeys

InitMixed == InitWith(1, MixedKeys, {})

NextMixed ==
  \/ NewTable(1, defaultCapacity)
  \/ \E h \in TableIds, k \in CallKeys, v \in Values : Put(1, h, k, v)
  \/ \E h \in TableIds, k \in CallKeys : Get(1, h, k)
  \/ \E h \in TableIds, k \in CallKeys : Exists(1, h, k)
  \/ \E h \in TableIds, k \in CallKeys : Remove(1, h, k)
  \/ \E h \in TableIds, k \in CallKeys : RemoveAndUpdate(1, h, k)
  \/ \E h \in TableIds, k \in CallKeys : UpdateWithFunc(1, h, k)
  \/ \E h \in TableIds : \E keep \in SUBSET Range(IterateOp(h)) : IterateAndUpdate(1, h, keep)
  \/ Return(1)

SpecMixed == InitMixed /\ [][NextMixed]_vars

(***************************************************************************)
(* Overlapping Puts of an int and a uint32 that share a bucket, then calls *)
(* that nothing overlaps: the two lookups both find the bucket empty, so   *)
(* the chain comes to hold keys of two domains.  A string sits in a later  *)
(* bucket.                                                                 *)
(***************************************************************************)
RacedMixedKeys == <<MixedKeys[1], MixedKeys[2], MixedKeys[4]>>

InitRacedMixed == InitWith(MaxThreads, RacedMixedKeys, {})

SpecRacedMixed == InitRacedMixed /\ [][NextRaced]_vars

(***************************************************************************)
(* Calls in steps, the lock explicit.  hm.lock is 0 when free, the number  *)
(* of the thread that holds it exclusively, or minus the number of threads *)
(* that hold it shared.  A call begins, waits for the lock its first       *)
(* critical section takes, runs that section and releases the lock (every  *)
(* Unlock and RUnlock is deferred, so a panic releases it too).  Put has   *)
(* two critical sections.  Expand reads hm.count before it takes the lock, *)
(* and RemoveUnsafe takes no lock at all.                                  *)
(*                                                                         *)
(* hm.lock is a sync.RWMutex.  One Lock call at a time is the pending      *)
(* writer: it waits until the readers that hold the lock have released it  *)
(* ("wwait"), and from its call until its Unlock every RLock call blocks   *)
(* ("rwait").  Unlock hands the lock to the readers blocked at that time   *)
(* before the next Lock call becomes the pending writer.                   *)
(***************************************************************************)
\* the operations whose first critical section is under RLock / under Lock
SharedOps == {"Get", "Exists", "GetCount", "Iterate", "Put"}
ExclusiveOps == {"Remove", "RemoveAndUpdate", "UpdateWithFunc", "IterateAndUpdate"}

\* thread t calls op
Begin(t, op, h, key, value, n) ==
  /\ pc[t] = "idle"
  /\ pc' = [pc EXCEPT ![t] = CASE op \in SharedOps    -> "rlock"
                               [] op \in ExclusiveOps -> "lock"
                               [] op = "Expand"       -> "expand"
                               [] op = "RemoveUnsafe" -> "unsafe"]
  /\ loc' = [loc EXCEPT ![t] = [NoLoc EXCEPT !.op = op, !.h = h, !.key = key,
                                             !.value = value, !.n = n]]
  /\ UNCHANGED <<tables, heap, ret, hist>>

\* the thread whose Lock call on table h is pending or has been granted
writerOf(h) == {u \in Threads : pc[u] \in {"wwait", "locked"} /\ loc[u].h = h}

\* the threads whose RLock call on table h is blocked
blockedReaders(h) == {u \in Threads : pc[u] = "rwait" /\ loc[u].h = h}

\* hm.lock.RLock(): granted at once unless a writer is pending or holds the
\* lock, and blocked then
RLock(t) ==
  /\ pc[t] = "rlock"
  /\ IF writerOf(loc[t].h) = {}
       THEN /\ tables' = [tables EXCEPT ![loc[t].h].lock = @ - 1]
            /\ pc' = [pc EXCEPT ![t] = "rlocked"]
       ELSE /\ pc' = [pc EXCEPT ![t] = "rwait"]
            /\ UNCHANGED tables
  /\ UNCHANGED <<heap, loc, ret, hist>>

\* hm.lock.Lock(): one caller at a time goes on; it has the lock at once
\* when no reader holds it, and waits for the readers that do
Lock(t) ==
  /\ pc[t] = "lock"
  /\ writerOf(loc[t].h) = {}
  /\ IF tables[loc[t].h].lock = 0
       THEN /\ tables' = [tables EXCEPT ![loc[t].h].lock = t]
            /\ pc' = [pc EXCEPT ![t] = "locked"]
       ELSE /\ pc' = [pc EXCEPT ![t] = "wwait"]
            /\ UNCHANGED tables
  /\ UNCHANGED <<heap, loc, ret, hist>>

\* hm.lock.Lock(), the pending writer: the last reader has released the lock
LockGranted(t) ==
  /\ pc[t] = "wwait"
  /\ tables[loc[t].h].lock = 0
  /\ tables' = [tables EXCEPT ![loc[t].h].lock = t]
  /\ pc' = [pc EXCEPT ![t] = "locked"]
  /\ UNCHANGED <<heap, loc, ret, hist>>

\* a critical section that ends without hm.lock.Unlock()
UnlockOmitted(ts, h) == ts

\* defer hm.lock.RUnlock() / defer hm.lock.Unlock(); Unlock leaves the lock
\* with the readers that were blocked
RUnlock(ts, h) == [ts EXCEPT ![h].lock = @ + 1]
Unlock(ts, h) == [ts EXCEPT ![h].lock = 0 - Cardinality(blockedReaders(h))]

\* thread t's call ends, leaving memory m: it panicked with panic, or
\* ("") returned val; the readers its Unlock let in are inside their
\* critical sections
EndCall(t, m, panic, val) ==
  /\ Commit(m, [loc EXCEPT ![t] = NoLoc])
  /\ pc' = [u \in Threads |->
              IF u = t THEN IF hist.results THEN "returned" ELSE "idle"
              ELSE IF /\ pc[t] = "locked" /\ m.tables[loc[t].h].lock < 0
                      /\ u \in blockedReaders(loc[t].h)
                     THEN "rlocked"
              ELSE pc[u]]
  /\ ret' = [ret EXCEPT ![t] =
               IF hist.results
                 THEN Ret(loc[t].op, [h |-> loc[t].h, key |-> loc[t].key,
                                      value |-> loc[t].value, n |-> loc[t].n], panic, val)
                 ELSE NoRet]
  /\ UNCHANGED hist

\* the panic of thread t's call, "" when the lookup of its key does not panic
lookupPanic(t) ==
  IF loc[t].op \in {"GetCount", "Iterate"} THEN ""
  ELSE IF getPairsUnsafe(tables[loc[t].h], heap, loc[t].key).panic
    THEN panicOf(tables[loc[t].h], loc[t].key)
  ELSE ""

\* Get, Exists, GetCount, Iterate: the read under the shared lock
Read(t) ==
  /\ pc[t] = "rlocked"
  /\ loc[t].op \in {"Get", "Exists", "GetCount", "Iterate"}
  /\ EndCall(t, Mem(RUnlock(tables, loc[t].h), heap), lookupPanic(t),
             CASE loc[t].op = "Get"      -> GetOp(loc[t].h, loc[t].key)
               [] loc[t].op = "Exists"   -> ExistsOp(loc[t].h, loc[t].key)
               [] loc[t].op = "GetCount" -> GetCountOp(loc[t].h)
               [] loc[t].op = "Iterate"  -> IterateOp(loc[t].h))

\* Put's getPairs: the lookup under the shared lock
PutLookup(t) ==
  /\ pc[t] = "rlocked"
  /\ loc[t].op = "Put"
  /\ LET l == loc[t]
         g == getPairsUnsafe(tables[l.h], heap, l.key)
     IN  IF g.panic
           THEN EndCall(t, Mem(RUnlock(tables, l.h), heap), lookupPanic(t), Nil)
           ELSE /\ Commit(Mem(RUnlock(tables, l.h), heap),
                          [loc EXCEPT ![t].pairs = g.pairs, ![t].hashIndex = g.hashIndex])
                /\ pc' = [pc EXCEPT ![t] = "lock"]
                /\ UNCHANGED <<ret, hist>>

\* Put's insert or overwrite under the exclusive lock
PutWrite(t) ==
  /\ pc[t] = "locked"
  /\ loc[t].op = "Put"
  /\ LET l == loc[t]
         m == IF l.pairs = Nil
                THEN putInsert(Mem(tables, heap), l.h, l.hashIndex, l.key, l.value)
                ELSE putSetValue(Mem(tables, heap), l.pairs, l.value)
     IN  EndCall(t, Mem(Unlock(m.tables, l.h), m.heap), "", Nil)

\* Remove and RemoveAndUpdate: removePairs under the exclusive lock
RemoveLocked(t) ==
  /\ pc[t] = "locked"
  /\ loc[t].op \in {"Remove", "RemoveAndUpdate"}
  /\ \E r \in {removePairs(Mem(tables, heap), loc[t].h, loc[t].key)} :
       EndCall(t, Mem(Unlock(r.mem.tables, loc[t].h), r.mem.heap),
               IF r.panic THEN panicOf(tables[loc[t].h], loc[t].key) ELSE "",
               IF loc[t].op = "Remove" THEN r.removed # Nil
               ELSE IF r.removed # Nil THEN <<r.value>> ELSE <<>>)

\* UpdateWithFunc: the lookup and the callback under the exclusive lock
UpdateWithFuncLocked(t) ==
  /\ pc[t] = "locked"
  /\ loc[t].op = "UpdateWithFunc"
  /\ EndCall(t, Mem(Unlock(tables, loc[t].h), heap), lookupPanic(t),
             IF lookupPanic(t) # "" THEN <<>> ELSE <<GetOp(loc[t].h, loc[t].key)>>)

\* IterateAndUpdate: the traversal under the exclusive lock, its removals
\* through removePairs, which takes no lock
IterateAndUpdateLocked(t) ==
  /\ pc[t] = "locked"
  /\ loc[t].op = "IterateAndUpdate"
  /\ \E keep \in SUBSET Range(IterateOp(loc[t].h)) :
       LET h == loc[t].h
           b == nextBucket(tables[h], 0)
       IN  \E r \in {iterateAndUpdateFrom(Mem(tables, heap), h, b, headOf(tables[h], b),
                                          keep, <<>>)} :
             EndCall(t, Mem(Unlock(r.mem.tables, h), r.mem.heap),
                     IF r.panic THEN InterfaceConversion ELSE "", r.visits)

\* Expand's  if capacity <= hm.count { panic(...) } , before hm.lock.Lock()
ExpandCheck(t) ==
  /\ pc[t] = "expand"
  /\ IF capacityTooSmall(tables[loc[t].h], loc[t].n)
       THEN EndCall(t, Mem(tables, heap), CapacityTooSmall, Nil)
       ELSE /\ pc' = [pc EXCEPT ![t] = "lock"]
            /\ UNCHANGED <<tables, heap, loc, ret, hist>>

\* Expand from hm.lock.Lock() on: the memory after the migration into the
\* table New made, which is the last of its tables, and whether a
\* re-insertion panicked
ExpandResult(t) ==
  LET h == loc[t].h
      b == nextBucket(tables[h], 0)
  IN  migrateFrom(Mem(Append(tables, New(loc[t].n)), heap), h, Len(tables) + 1, b,
                  headOf(tables[h], b), headOf(tables[h], b))

\* Expand from hm.lock.Lock() on.  No other thread can reach the new table
\* or its lock; the caller lets go of the table it gets, so what stays is
\* what the migration wrote to the source
ExpandMigrate(t) ==
  /\ pc[t] = "locked"
  /\ loc[t].op = "Expand"
  /\ \E r \in {ExpandResult(t)} :
       EndCall(t, Mem(Unlock(SubSeq(r.mem.tables, 1, Len(tables)), loc[t].h), r.mem.heap),
               IF r.panic THEN InterfaceConversion ELSE "", Nil)

\* RemoveUnsafe: removePairs with no lock, up to the node that compares equal
RemoveUnsafeWalk(t) ==
  /\ pc[t] = "unsafe"
  /\ LET l == loc[t]
         d == getHashIndexAndEqualFunc(tables[l.h], l.key)
         firstPairs == tables[l.h].slices[d.hashIndex + 1]
         w == removeWalk(heap, d.equal, Nil, firstPairs, l.key)
     IN  IF d.panic \/ w.panic \/ w.pairs = Nil
           THEN EndCall(t, Mem(tables, heap), lookupPanic(t), FALSE)
           ELSE /\ pc' = [pc EXCEPT ![t] = "unlink"]
                /\ loc' = [loc EXCEPT ![t].hashIndex = d.hashIndex, ![t].first = firstPairs,
                                      ![t].cur = w.prevPairs, ![t].pairs = w.pairs]
                /\ UNCHANGED <<tables, heap, ret, hist>>

\* RemoveUnsafe: the unlinking of the node found, the scrub and hm.count--,
\* with whatever the other threads have done to the table since the walk
RemoveUnsafeUnlink(t) ==
  /\ pc[t] = "unlink"
  /\ LET l == loc[t]
     IN  EndCall(t, unlinkPairs(Mem(tables, heap), l.h, l.hashIndex, l.first, l.cur, l.pairs),
                 "", TRUE)

\* one table of the default capacity, n threads, the keys ks; results says
\* if a finished call's result stays in ret until the caller takes it
InitLocked(n, ks, results) ==
  /\ tables = <<New(defaultCapacity)>>
  /\ heap = <<>>
  /\ pc = [t \in 1..n |-> "idle"]
  /\ loc = [t \in 1..n |-> NoLoc]
  /\ ret = [t \in 1..n |-> NoRet]
  /\ hist = [keys |-> ks, ref |-> <<>>, after |-> 0, puts |-> {}, lin |-> {},
             results |-> results]

(***************************************************************************)
(* Every operation that takes the lock, called by MaxThreads threads on    *)
(* one table and one key, each thread writing its own number.              *)
(***************************************************************************)
LockedKeys == SubSeq(KeySeq("int"), 1, 1)

\* the operations that take a key
KeyedOps == {"Get", "Exists", "Put", "Remove", "RemoveAndUpdate", "UpdateWithFunc"}

InitLocked1 == InitLocked(MaxThreads, LockedKeys, FALSE)

\* a step of thread t's call other than waiting for a lock
Step(t) ==
  \/ Read(t)
  \/ PutLookup(t)
  \/ PutWrite(t)
  \/ RemoveLocked(t)
  \/ UpdateWithFuncLocked(t)
  \/ IterateAndUpdateLocked(t)
  \/ ExpandCheck(t)
  \/ ExpandMigrate(t)

NextLocked ==
  \/ \E t \in Threads, op \in KeyedOps, k \in Keys : Begin(t, op, 1, k, t, 0)
  \/ \E t \in Threads, op \in (SharedOps \cup ExclusiveOps) \ KeyedOps :
       Begin(t, op, 1, NilKey, Nil, 0)
  \/ \E t \in Threads, n \in ExpandCaps : Begin(t, "Expand", 1, NilKey, Nil, n)
  \/ \E t \in Threads : RLock(t)
  \/ \E t \in Threads : Lock(t)
  \/ \E t \in Threads : LockGranted(t)
  \/ \E t \in Threads : Step(t)

SpecLocked == InitLocked1 /\ [][NextLocked]_vars

\* the scheduler runs every thread that can take a step, a pending writer
\* goes on once the readers are gone, and of the callers of Lock one that
\* keeps waiting becomes the pending writer (sync.Mutex hands over to its
\* waiters)
FairLocked ==
  \A t \in 1..MaxThreads :
    WF_vars(Step(t) \/ LockGranted(t)) /\ SF_vars(RLock(t) \/ Lock(t))

SpecLive == SpecLocked /\ FairLocked

(***************************************************************************)
(* The operations that take a key, called by MaxThreads threads on one     *)
(* table with a key it supports or one it does not; results are kept.      *)
(***************************************************************************)
InitKeyed == InitLocked(MaxThreads, LockedKeys, TRUE)

NextKeyed ==
  \/ \E t \in Threads, op \in KeyedOps, k \in CallKeys : Begin(t, op, 1, k, t, 0)
  \/ \E t \in Threads : RLock(t)
  \/ \E t \in Threads : Lock(t)
  \/ \E t \in Threads : LockGranted(t)
  \/ \E t \in Threads : Read(t)
  \/ \E t \in Threads : PutLookup(t)
  \/ \E t \in Threads : PutWrite(t)
  \/ \E t \in Threads : RemoveLocked(t)
  \/ \E t \in Threads : UpdateWithFuncLocked(t)
  \/ \E t \in Threads : Return(t)

SpecKeyed == InitKeyed /\ [][NextKeyed]_vars

(***************************************************************************)
(* The operations that change a table, called by MaxThreads threads on one *)
(* table and two keys that share a bucket; results are kept.               *)
(***************************************************************************)
InitWriters == InitLocked(MaxThreads, SharedKeys("int"), TRUE)

NextWriters ==
  \/ \E t \in Threads, op \in {"Put", "Remove", "RemoveAndUpdate"}, k \in Keys :
       Begin(t, op, 1, k, t, 0)
  \/ \E t \in Threads : Begin(t, "IterateAndUpdate", 1, NilKey, Nil, 0)
  \/ \E t \in Threads, n \in ExpandCaps : Begin(t, "Expand", 1, NilKey, Nil, n)
  \/ \E t \in Threads : RLock(t)
  \/ \E t \in Threads : Lock(t)
  \/ \E t \in Threads : LockGranted(t)
  \/ \E t \in Threads : PutLookup(t)
  \/ \E t \in Threads : PutWrite(t)
  \/ \E t \in Threads : RemoveLocked(t)
  \/ \E t \in Threads : IterateAndUpdateLocked(t)
  \/ \E t \in Threads : ExpandCheck(t)
  \/ \E t \in Threads : ExpandMigrate(t)
  \/ \E t \in Threads : Return(t)

SpecWriters == InitWriters /\ [][NextWriters]_vars

(***************************************************************************)
(* Every public operation, RemoveUnsafe included, called by MaxThreads     *)
(* threads on one table and one key.  RemoveUnsafe runs removePairs with   *)
(* no lock, so other threads' critical sections can fall between its walk  *)
(* of the chain and its unlinking of the node found; of the outcomes of    *)
(* that data race the model has those of this one interleaving.  No more   *)
(* RemoveUnsafe is called once the count and the chains disagree, which    *)
(* keeps the count bounded.                                                *)
(***************************************************************************)
NextUnsafe ==
  \/ NextLocked
  \/ \E t \in Threads, k \in Keys :
       GetCountOp(1) = Len(IterateOp(1)) /\ Begin(t, "RemoveUnsafe", 1, k, Nil, 0)
  \/ \E t \in Threads : RemoveUnsafeWalk(t)
  \/ \E t \in Threads : RemoveUnsafeUnlink(t)

SpecUnsafe == InitLocked1 /\ [][NextUnsafe]_vars

(***************************************************************************)
(* What a caller can observe of a table, and the table's structure with    *)
(* node addresses left out.                                                *)
(***************************************************************************)
\* the keys any caller may ask for: those in use and one never inserted
ProbeKeys == Keys \cup {SpareKey(hist.keys[1].dom)}

\* the value the plain map ref[h] holds for key k, Nil when it holds none
RefGet(h, k) == IF k \in Keys THEN hist.ref[h][k] ELSE Nil

\* position of node n in the sequence ns, 0 when it is not there
indexIn(ns, n) == IF \E j \in 1..Len(ns) : ns[j] = n
                    THEN CHOOSE j \in 1..Len(ns) : ns[j] = n ELSE 0

\* bucket b of table h in memory (ts, hp): its entries in chain order, and
\* where in the chain the head's last points (0: nowhere in the chain)
BucketViewIn(ts, hp, h, b) ==
  LET ns == chainFrom(hp, ts[h].slices[b])
  IN  [ entries |-> [j \in 1..Len(ns) |-> <<hp[ns[j]].key, hp[ns[j]].value>>],
        anchor  |-> IF ns = <<>> THEN 0 ELSE indexIn(ns, hp[ns[1]].last) ]

ViewIn(ts, hp, h) ==
  [ capacity |-> ts[h].capacity,
    masks    |-> <<ts[h].mask_int, ts[h].mask_uint32, ts[h].mask_uint64>>,
    count    |-> ts[h].count,
    lock     |-> ts[h].lock,
    buckets  |-> [b \in 1..Len(ts[h].slices) |-> BucketViewIn(ts, hp, h, b)] ]

BucketView(h, b) == BucketViewIn(tables, heap, h, b)
View(h) == ViewIn(tables, heap, h)
\* the table's view is the same before and after the step
SameView(h) == ViewIn(tables', heap', h) = ViewIn(tables, heap, h)

\* thread t has just finished a call of op, which did not panic
Returned(t, op) == pc[t] = "returned" /\ ret[t].op = op /\ ret[t].panic = ""

(***************************************************************************)
(* C1.  After any sequence of non-overlapping Put and Remove calls, every  *)
(* table agrees with a plain key-to-value map on which the same calls were *)
(* made: GetCount is the number of keys the map holds, Get returns the     *)
(* map's value (the most recent Put) for each of them, and Get is absent   *)
(* and Exists false for every other key.                                   *)
(***************************************************************************)
C1_PutRemoveAgreeWithMap ==
  \A h \in TableIds :
    /\ GetCountOp(h) = Cardinality({k \in Keys : hist.ref[h][k] # Nil})
    /\ \A k \in ProbeKeys :
         /\ GetOp(h, k) = RefGet(h, k)
         /\ ExistsOp(h, k) = (RefGet(h, k) # Nil)

\* a Remove has just taken an entry out of a chain of three colliding keys,
\* one of the two left holding an overwritten value
C1_Witness ==
  /\ Returned(1, "Remove")
  /\ ret[1].val = TRUE
  /\ \E b \in 1..Len(tables[1].slices) :
       /\ Len(BucketView(1, b).entries) = 2
       /\ BucketView(1, b).entries[1][2] # BucketView(1, b).entries[2][2]
  /\ GetCountOp(1) = 2

(***************************************************************************)
(* C2.  Under any interleaving of concurrent Put calls, two or more for    *)
(* the same absent key included, no bucket chain ever holds two entries    *)
(* with equal keys (Put's presence check and its insert take effect as one *)
(* atomic step).                                                           *)
(***************************************************************************)
C2_NoDuplicateKeys ==
  \A h \in TableIds : \A b \in 1..Len(tables[h].slices) :
    LET es == BucketView(h, b).entries
    IN  \A i \in 1..Len(es) : \A j \in 1..Len(es) : i # j => es[i][1] # es[j][1]

(***************************************************************************)
(* C3.  Every concurrent execution of Put, Remove, Get, Exists, GetCount   *)
(* (and Iterate) on one table is linearizable: some order of the calls so  *)
(* far, consistent with each call's start and return, explains on a plain  *)
(* map every value returned, and once no call is in flight the table's     *)
(* contents and count are those of the plain map after such an order.      *)
(***************************************************************************)
C3_Linearizable ==
  /\ hist.lin # {}
  /\ (Len(tables) = 1 /\ \A t \in Threads : pc[t] = "idle") =>
       \E c \in hist.lin :
         /\ GetCountOp(1) = mapCount(c.map)
         /\ \A k \in Keys :
              /\ GetOp(1, k) = c.map[k]
              /\ ExistsOp(1, k) = (c.map[k] # Nil)

(***************************************************************************)
(* C4.  When n Put calls with pairwise distinct keys run concurrently on a *)
(* fresh table, keys sharing a bucket included, then once all have         *)
(* returned every key is present exactly once with its own value and       *)
(* GetCount = n; after some of the keys are removed, Iterate yields        *)
(* exactly the remaining keys, each once with its value, and GetCount is   *)
(* the number remaining.                                                   *)
(***************************************************************************)
C4_DistinctPutsAllLand ==
  AllPutsReturned =>
    LET it   == IterateOp(1)
        left == {k \in Keys : hist.ref[1][k] # Nil}
    IN  /\ GetCountOp(1) = Cardinality(left)
        /\ Len(it) = Cardinality(left)
        /\ \A t \in Threads :
             LET k == hist.keys[t]
             IN  /\ hist.ref[1][k] \in {t, Nil}
                 /\ IF k \in left
                      THEN /\ GetOp(1, k) = t
                           /\ Cardinality({j \in 1..Len(it) : it[j] = <<k, t>>}) = 1
                      ELSE ~ExistsOp(1, k)

\* the README case: after the five Puts, Remove key2 and key3, Iterate has
\* just yielded key1, key4 and key5 and the count is 3
C4_Witness ==
  /\ hist.keys = ReadmeKeys
  /\ AllPutsReturned
  /\ Returned(1, "Iterate")
  /\ Len(ret[1].val) = 3
  /\ Range(ret[1].val) = {<<ReadmeKeys[1], 1>>, <<ReadmeKeys[4], 4>>, <<ReadmeKeys[5], 5>>}
  /\ GetCountOp(1) = 3

(***************************************************************************)
(* C5.  With no operation overlapping it, a successful Expand(n) returns a *)
(* table with exactly the source's key-to-value mappings (Get agrees for   *)
(* every key, also for a key never inserted) and the source's GetCount.    *)
(***************************************************************************)
C5_ExpandCopiesMappings ==
  Returned(1, "Expand") =>
    LET src == ret[1].arg.h
        new == ret[1].val
    IN  /\ \A k \in ProbeKeys :
             /\ GetOp(new, k) = GetOp(src, k)
             /\ ExistsOp(new, k) = ExistsOp(src, k)
        /\ GetCountOp(new) = GetCountOp(src)

(***************************************************************************)
(* C6.  A successful Expand leaves the source table as it was (bucket      *)
(* array, the order, keys and values of every chain, every tail-anchor,    *)
(* capacity, count), and afterwards a Put, Remove or IterateAndUpdate on   *)
(* one table changes nothing of the other.                                 *)
(***************************************************************************)
C6_Step ==
  /\ (pc[1] = "idle" /\ Returned(1, "Expand")') =>
        \A h \in TableIds : SameView(h)
  /\ (pc[1] # "returned" /\ pc'[1] = "returned"
        /\ ret'[1].op \in {"Put", "Remove", "IterateAndUpdate"}) =>
        \A h \in TableIds : h # ret'[1].arg.h => SameView(h)

C6_ExpandLeavesSourceAndTablesIndependent == [][C6_Step]_vars

\* after an Expand of a table with a chain of two or more, a Put or Remove
\* on one of the two tables has changed that table
C6_Witness ==
  /\ Len(tables) = 2
  /\ pc[1] = "returned"
  /\ ret[1].op \in {"Put", "Remove"}
  /\ \E b \in 1..Len(tables[1].slices) : Len(BucketView(1, b).entries) >= 2
  /\ GetCountOp(1) # GetCountOp(2)

(***************************************************************************)
(* C7.  Expand(n) with n <= the source's live-entry count panics with      *)
(* CapacityTooSmall, returns no table, leaves the source's contents and    *)
(* count as they were and does not leave the source's lock held.           *)
(***************************************************************************)
C7_Step ==
  (pc[1] = "idle" /\ pc'[1] = "returned" /\ ret'[1].op = "Expand"
     /\ ret'[1].arg.n <= tables[ret'[1].arg.h].count) =>
       /\ ret'[1].panic = CapacityTooSmall
       /\ ret'[1].val = Nil
       /\ Len(tables') = Len(tables)
       /\ \A h \in TableIds : SameView(h) /\ tables'[h].lock = 0

C7_ExpandTooSmallPanics == [][C7_Step]_vars

\* Expand(2) has panicked on a table holding two or three entries
C7_Witness ==
  /\ pc[1] = "returned"
  /\ ret[1].op = "Expand"
  /\ ret[1].panic = CapacityTooSmall
  /\ ret[1].arg.n = 2
  /\ tables[ret[1].arg.h].count >= 2
  /\ Len(tables) = 1

(***************************************************************************)
(* C8.  As claimed: every table a successful Expand returns has a capacity *)
(* strictly larger than the capacity of its source.                        *)
(***************************************************************************)
C8_ExpandGrowsCapacity ==
  Returned(1, "Expand") =>
    tables[ret[1].val].capacity > tables[ret[1].arg.h].capacity

(***************************************************************************)
(* C8, amended.  Every table a successful Expand(n) returns has the        *)
(* capacity New(n) gives: a power of two, at least 16 and at least n,      *)
(* hence strictly larger than the source's live-entry count; it may equal  *)
(* or be smaller than the source's capacity.                               *)
(***************************************************************************)
IsPow2(x) == \E e \in 0..LimbBits : x = Pow2(e)

C8_ExpandCapacityCoversRequest ==
  Returned(1, "Expand") =>
    LET cap == tables[ret[1].val].capacity
    IN  /\ IsPow2(cap)
        /\ cap >= defaultCapacity
        /\ cap >= ret[1].arg.n
        /\ cap > tables[ret[1].arg.h].count

\* Expand(17) has returned a table of 32 buckets
C8_Witness ==
  /\ Returned(1, "Expand")
  /\ ret[1].arg.n = 17
  /\ tables[ret[1].val].capacity = 32
  /\ tables[ret[1].arg.h].count >= 1

(***************************************************************************)
(* C9.  New(c) yields an empty table whose capacity is 16 when c < 16 and  *)
(* otherwise the least power of two >= c, every mask being capacity - 1;   *)
(* and no later operation changes a table's capacity or masks.             *)
(***************************************************************************)
\* the least power of two >= c, found by search
LeastPow2AtLeast(c) ==
  CHOOSE x \in {Pow2(e) : e \in 0..LimbBits} :
    x >= c /\ \A y \in {Pow2(e) : e \in 0..LimbBits} : y >= c => x <= y

MasksFit(hm) ==
  /\ hm.mask_int = hm.capacity - 1
  /\ hm.mask_uint32 = hm.capacity - 1
  /\ hm.mask_uint64 = hm.capacity - 1
  /\ Len(hm.slices) = hm.capacity

C9_Step ==
  /\ (pc[1] = "idle" /\ Returned(1, "New")') =>
       LET hm == tables'[ret'[1].val]
           c  == ret'[1].arg.c
       IN  /\ hm.capacity = IF c < 16 THEN 16 ELSE LeastPow2AtLeast(c)
           /\ hm.count = 0
           /\ \A b \in 1..Len(hm.slices) : hm.slices[b] = Nil
  /\ \A h \in 1..Len(tables') : MasksFit(tables'[h])
  /\ \A h \in TableIds :
       /\ tables'[h].capacity = tables[h].capacity
       /\ tables'[h].mask_int = tables[h].mask_int
       /\ tables'[h].mask_uint32 = tables[h].mask_uint32
       /\ tables'[h].mask_uint64 = tables[h].mask_uint64

C9_NewCapacityFixed == [][C9_Step]_vars

\* a table made by New(17) has 32 buckets and has since been filled
C9_Witness ==
  /\ Len(tables) >= 1
  /\ tables[1].capacity = 32
  /\ tables[1].count = 3
  /\ Returned(1, "Put")

(***************************************************************************)
(* C10.  After IterateAndUpdate(f) with no operation overlapping it, the   *)
(* table holds exactly the entries for which f said true, values           *)
(* unchanged, and GetCount is their number; if f always says true nothing  *)
(* changes, if it always says false the table is empty and Get of every    *)
(* former key is absent.                                                   *)
(***************************************************************************)
\* the (key, value) pairs of the visits judged valid, in visiting order
RECURSIVE kept(_)
kept(visits) ==
  IF visits = <<>> THEN <<>>
  ELSE (IF Head(visits).valid THEN << <<Head(visits).key, Head(visits).value>> >> ELSE <<>>)
         \o kept(Tail(visits))

\* the value the entries es (in order) give key k, Nil when none has it
valueIn(es, k) ==
  IF \E j \in 1..Len(es) : es[j][1] = k
    THEN es[CHOOSE j \in 1..Len(es) :
              es[j][1] = k /\ \A i \in 1..(j - 1) : es[i][1] # k][2]
    ELSE Nil

C10_Step ==
  (pc[1] = "idle" /\ Returned(1, "IterateAndUpdate")') =>
    LET h      == ret'[1].arg.h
        keep   == ret'[1].arg.keep
        visits == ret'[1].val
        old    == IterateOp(h)
        new    == IterateIn(tables', heap', h)
    IN  /\ old = [j \in 1..Len(visits) |-> <<visits[j].key, visits[j].value>>]
        /\ \A j \in 1..Len(visits) : visits[j].valid = (old[j] \in keep)
        /\ new = kept(visits)
        /\ GetCountIn(tables', h) = Len(new)
        /\ \A k \in ProbeKeys : GetIn(tables', heap', h, k) = valueIn(kept(visits), k)
        /\ Range(old) \subseteq keep => SameView(h)
        /\ keep = {} => /\ GetCountIn(tables', h) = 0
                        /\ \A k \in ProbeKeys : GetIn(tables', heap', h, k) = Nil

C10_IterateAndUpdateKeepsValid == [][C10_Step]_vars

(***************************************************************************)
(* C11.  IterateAndUpdate calls its callback exactly once for each entry   *)
(* that was in the table when the traversal began, in traversal order,     *)
(* whichever of them the callback has removed (the head, a middle node,    *)
(* the tail or the only node of a chain, or all of them): no entry is      *)
(* skipped, none is passed twice, and what is passed is never a node       *)
(* already removed and scrubbed.                                           *)
(***************************************************************************)
C11_Step ==
  (pc[1] = "idle" /\ pc'[1] = "returned" /\ ret'[1].op = "IterateAndUpdate") =>
    LET visits == ret'[1].val
        old    == IterateOp(ret'[1].arg.h)
    IN  /\ Len(visits) = Len(old)
        /\ \A j \in 1..Len(visits) :
             /\ j <= Len(old) => visits[j].key = old[j][1] /\ visits[j].value = old[j][2]
             /\ visits[j].value # Nil
             /\ visits[j].key \in Keys

C11_IterateAndUpdateVisitsEachOnce == [][C11_Step]_vars

(***************************************************************************)
(* C12.  Remove(k) and RemoveAndUpdate(k, f) on a table that holds no      *)
(* entry for k change nothing and raise no error: contents, chains,        *)
(* tail-anchors and GetCount stay as they were and f is not called.  So a  *)
(* second Remove(k) right after a Remove(k) leaves the table as the first  *)
(* left it.                                                                *)
(***************************************************************************)
\* table h holds an entry whose key is k
holdsKey(h, k) == \E j \in 1..Len(IterateOp(h)) : IterateOp(h)[j][1] = k

C12_Step ==
  /\ (/\ pc[1] = "idle" /\ pc'[1] = "returned"
      /\ ret'[1].op \in {"Remove", "RemoveAndUpdate"}
      /\ ret'[1].arg.key \in Keys
      /\ ~holdsKey(ret'[1].arg.h, ret'[1].arg.key)) =>
        /\ ret'[1].panic = ""
        /\ SameView(ret'[1].arg.h)
        /\ ret'[1].op = "Remove" => ret'[1].val = FALSE
        /\ ret'[1].op = "RemoveAndUpdate" => ret'[1].val = <<>>
  /\ (pc[1] = "idle" /\ Returned(1, "Remove")') =>
        LET h  == ret'[1].arg.h
            r2 == removePairs(Mem(tables', heap'), h, ret'[1].arg.key)
        IN  /\ ~r2.panic
            /\ r2.removed = Nil
            /\ ViewIn(r2.mem.tables, r2.mem.heap, h) = ViewIn(tables', heap', h)

C12_RemoveAbsentIsNoOp == [][C12_Step]_vars

(***************************************************************************)
(* C19.  Every call of Put, Get, Exists, Remove or UpdateWithFunc with a   *)
(* key of a supported domain completes without a panic whatever the        *)
(* domains of the keys the table holds, the same bucket included: a stored *)
(* key of another domain counts as not equal, so the call returns what a   *)
(* plain map of the keys of all domains returns.                           *)
(***************************************************************************)
C19_MixedDomainsNoFatal ==
  \A t \in Threads :
    (/\ pc[t] = "returned"
     /\ ret[t].op \in {"Put", "Get", "Exists", "Remove", "UpdateWithFunc"}
     /\ ret[t].arg.key \in Keys) =>
      LET h == ret[t].arg.h
          k == ret[t].arg.key
      IN  /\ ret[t].panic = ""
          /\ GetCountOp(h) = Cardinality({j \in Keys : hist.ref[h][j] # Nil})
          /\ ret[t].op = "Put" => hist.ref[h][k] = ret[t].arg.value /\ GetOp(h, k) = ret[t].arg.value
          /\ ret[t].op = "Get" => ret[t].val = hist.ref[h][k]
          /\ ret[t].op = "Exists" => ret[t].val = (hist.ref[h][k] # Nil)
          /\ ret[t].op = "Remove" => hist.ref[h][k] = Nil /\ ~ExistsOp(h, k)
          /\ ret[t].op = "UpdateWithFunc" => ret[t].val = <<hist.ref[h][k]>>

(***************************************************************************)
(* C13.  Put, Get, Exists, Remove, RemoveAndUpdate and UpdateWithFunc      *)
(* called with a key outside the five domains panic with "bad key type".   *)
(* The failed call changes neither contents nor count, calls no callback   *)
(* and releases the lock it held, so the table is to every later call what *)
(* it was before, and in every state the lock is held by exactly the       *)
(* threads inside a critical section.                                      *)
(***************************************************************************)
\* the lock of table h is held by exactly the threads inside a critical
\* section on h
LockMatchesHolders(h) ==
  LET w == {t \in Threads : pc[t] = "locked" /\ loc[t].h = h}
      r == {t \in Threads : pc[t] = "rlocked" /\ loc[t].h = h}
  IN  /\ Cardinality(w) <= 1
      /\ w # {} => r = {} /\ tables[h].lock \in w
      /\ w = {} => tables[h].lock = 0 - Cardinality(r)

\* the view of table h with the lock's holders left out
ContentsIn(ts, hp, h) == [ViewIn(ts, hp, h) EXCEPT !.lock = 0]

C13_Step ==
  \A t \in Threads :
    (/\ pc[t] \in {"rlocked", "locked"}
     /\ loc[t].op \in KeyedOps
     /\ loc[t].key \in UnsupportedKeys
     /\ pc'[t] # pc[t]) =>
      LET h == loc[t].h
      IN  /\ pc'[t] = "returned"
          /\ ret'[t].op = loc[t].op
          /\ ret'[t].panic = BadKeyType
          /\ loc[t].op \in {"RemoveAndUpdate", "UpdateWithFunc"} => ret'[t].val = <<>>
          /\ tables'[h].lock = IF pc[t] = "locked"
                                 THEN 0 - Cardinality(blockedReaders(h))
                                 ELSE tables[h].lock + 1
          /\ ContentsIn(tables', heap', h) = ContentsIn(tables, heap, h)
          /\ \A k \in Keys : /\ GetIn(tables', heap', h, k) = GetOp(h, k)
                             /\ ExistsIn(tables', heap', h, k) = ExistsOp(h, k)

C13_UnsupportedKeyPanicsCleanly ==
  /\ [][C13_Step]_vars
  /\ [](\A h \in TableIds : LockMatchesHolders(h))

\* a Remove with a nil key has panicked on a table that holds an entry, and
\* the other thread, which was waiting for the lock, is inside its Put
C13_Witness ==
  \E t \in Threads, u \in Threads :
    /\ pc[t] = "returned"
    /\ ret[t].op = "Remove" /\ ret[t].arg.key = NilKey /\ ret[t].panic = BadKeyType
    /\ GetCountOp(1) = 1
    /\ pc[u] = "locked" /\ loc[u].op = "Put" /\ loc[u].key \in Keys

(***************************************************************************)
(* C14.  UpdateWithFunc(k, f) calls f exactly once, while the exclusive    *)
(* lock is held, with the value stored for k, or with nil when the table   *)
(* holds no entry for k, and changes nothing of the table's structure:     *)
(* keys, chains, tail-anchors and GetCount stay as they were, and no entry *)
(* is made for an absent k.                                                *)
(***************************************************************************)
C14_Step ==
  \A t \in Threads :
    (/\ pc[t] # "returned" /\ pc'[t] = "returned"
     /\ ret'[t].op = "UpdateWithFunc"
     /\ ret'[t].arg.key \in Keys) =>
      LET h == ret'[t].arg.h
          k == ret'[t].arg.key
      IN  /\ ret'[t].panic = ""
          /\ ret'[t].val = <<valueIn(IterateOp(h), k)>>
          /\ pc[t] = "locked" => tables[h].lock = t
          /\ ContentsIn(tables', heap', h) = ContentsIn(tables, heap, h)
          /\ ~holdsKey(h, k) => valueIn(IterateIn(tables', heap', h), k) = Nil

C14_UpdateWithFuncCallsOnce == [][C14_Step]_vars

(***************************************************************************)
(* C18.  With a fair scheduler and callbacks that return and do not call   *)
(* into the table, every call of Put, Get, Exists, Remove, UpdateWithFunc, *)
(* Iterate, IterateAndUpdate, GetCount or Expand returns with the lock     *)
(* released: no interleaving deadlocks, IterateAndUpdate removes without   *)
(* taking the lock again, and Expand, which holds the source's lock while  *)
(* it inserts into the new table, completes.                               *)
(***************************************************************************)
C18_EveryCallReturns ==
  /\ [](\A h \in TableIds : LockMatchesHolders(h))
  /\ \A t \in 1..MaxThreads : (pc[t] # "idle") ~> (pc[t] = "idle")

\* a thread waits for the lock while another, inside Expand, holds the
\* source's lock and is about to insert into the new table
C18_Witness ==
  \E t \in Threads, u \in Threads :
    /\ pc[t] = "locked" /\ loc[t].op = "Expand"
    /\ tables[loc[t].h].count > 0
    /\ pc[u] \in {"lock", "rwait"} /\ loc[u].h = loc[t].h

(***************************************************************************)
(* C15: every public operation reads or writes table state only while it   *)
(* holds the table's lock, shared for a read and exclusive for a write, so *)
(* no thread changes a table while another thread reads or changes it.     *)
(***************************************************************************)
\* thread t's next step reads state of its table: a lookup or traversal
\* under RLock, the body of a critical section, Expand's  capacity <=
\* hm.count,  RemoveUnsafe's walk and unlinking
ReadsTable(t) == pc[t] \in {"rlocked", "locked", "expand", "unsafe", "unlink"}

\* thread t's next step may write state of its table
WritesTable(t) == pc[t] \in {"locked", "unlink"}

\* thread t holds the lock of its table in shared or in exclusive mode
HoldsShared(t) == pc[t] = "rlocked" /\ tables[loc[t].h].lock < 0
HoldsExclusive(t) == pc[t] = "locked" /\ tables[loc[t].h].lock = t

C15_AccessOnlyUnderLock ==
  /\ \A t \in Threads :
        /\ ReadsTable(t) => HoldsShared(t) \/ HoldsExclusive(t)
        /\ WritesTable(t) => HoldsExclusive(t)
  /\ \A t, u \in Threads :
        t # u /\ loc[t].h = loc[u].h /\ WritesTable(t) => ~ReadsTable(u)

(***************************************************************************)
(* C16: whenever no operation is inside an exclusive critical section,     *)
(* after any interleaving of Put, Remove, RemoveAndUpdate,                 *)
(* IterateAndUpdate and Expand, the head of every non-empty bucket has its *)
(* last pointing to the chain's last node; so has every bucket of the      *)
(* table an Expand returns.                                                *)
(***************************************************************************)
\* in memory (ts, hp) every non-empty bucket of table h is anchored at its
\* last node
AnchoredIn(ts, hp, h) ==
  \A b \in 1..Len(ts[h].slices) :
    LET v == BucketViewIn(ts, hp, h, b)
    IN  v.entries # <<>> => v.anchor = Len(v.entries)

NoneLocked == \A t \in Threads : pc[t] # "locked"

C16_Anchored == NoneLocked => \A h \in TableIds : AnchoredIn(tables, heap, h)

\* an Expand that leaves its critical section returns an anchored table
C16_Step ==
  \A t \in Threads :
    pc[t] = "locked" /\ loc[t].op = "Expand" /\ pc'[t] # "locked"
      => AnchoredIn(ExpandResult(t).mem.tables, ExpandResult(t).mem.heap, Len(tables) + 1)

C16_HeadAnchorsTail == []C16_Anchored /\ [][C16_Step]_vars

\* a Remove has returned having removed the first key from the bucket it
\* shares with the second, which is still there
C16_Witness ==
  /\ NoneLocked
  /\ \E t \in Threads :
       /\ Returned(t, "Remove")
       /\ ret[t].val = TRUE
       /\ ret[t].arg.key = hist.keys[1]
       /\ LET v == BucketView(1, getHashIndexAndEqualFunc(tables[1], hist.keys[1]).hashIndex + 1)
          IN  /\ Len(v.entries) = 1
              /\ v.entries[1][1] = hist.keys[2]
              /\ v.anchor = 1

(***************************************************************************)
(* C17: whenever no operation is inside an exclusive critical section,     *)
(* under any interleaving of concurrent operations, count is the number of *)
(* entries reachable from the bucket array, no node is reached twice, and  *)
(* no scrubbed node (value nil) is reachable.                              *)
(***************************************************************************)
CountAndChainsSound(h) ==
  LET ns == nodesFrom(tables[h], heap, 0)
  IN  /\ tables[h].count = Len(ns)
      /\ \A i, j \in 1..Len(ns) : ns[i] = ns[j] => i = j
      /\ \A i \in 1..Len(ns) : heap[ns[i]].value # Nil

C17_CountMatchesChains == NoneLocked => \A h \in TableIds : CountAndChainsSound(h)

(***************************************************************************)
(* C20: whenever Expand(n) returns a table, that table holds fewer than n  *)
(* entries, also when Put calls on the source run concurrently with the    *)
(* Expand.                                                                 *)
(***************************************************************************)
C20_Step ==
  \A t \in Threads :
    (/\ pc[t] = "locked" /\ loc[t].op = "Expand" /\ pc'[t] # "locked"
     /\ ~ExpandResult(t).panic)
      => LET m  == ExpandResult(t).mem
             nh == Len(tables) + 1
         IN  /\ GetCountIn(m.tables, nh) < loc[t].n
             /\ Len(IterateIn(m.tables, m.heap, nh)) < loc[t].n

C20_ExpandedCountBelowCapacity == [][C20_Step]_vars


============================================================================
